---- MODULE Spec2Model ----
(***************************************************************************)
(* Debug-location correlation of the starknet-simulator compiler service.  *)
(*                                                                         *)
(*   cairo_sierra/cairo_helper.rs  get_diagnostic_locations and            *)
(*                                 generate_sierra_to_cairo_statement_info *)
(*                                 build sierra_cairo_info_mapping         *)
(*   casm_sierra/cairo.rs          get_casm_sierra_mapping_instructions    *)
(*                                 builds casm_instructions and            *)
(*                                 casm_sierra_mapping                     *)
(*                                                                         *)
(* An Option<T> of the source is a sequence of length at most one: <<>> is *)
(* None and <<x>> is Some(x).  An IndexMap is the sequence of its entries  *)
(* [key, val] in insertion order, with distinct keys.                      *)
(***************************************************************************)
EXTENDS Integers, Sequences, FiniteSets, TLC

\* ------------------------------------------------------------------ bounds
MaxN == 2          \* statements of the Sierra program
MaxLocs == 2       \* diagnostic locations reported for one statement
MaxOff == 1        \* start offset of a syntax node
MaxWidth == 1      \* width of a syntax node
MaxInstr == 2      \* instructions of the CASM program
MaxImm == 0        \* immediate operand values
MaxInfo == 3       \* debug annotations of the CASM program
MaxPc == 3         \* program counters handed to trace_error
MaxLookups == 2    \* calls of trace_error on one compilation result
MaxPasses == 2     \* requests the service compiles at the same time
MaxContracts == 2  \* contracts declared in the main crate
MaxFns == 3        \* entry point functions of a contract
MaxSelector == 1   \* selectors of the entry point functions

\* ------------------------------------------------------------------ state
VARIABLES
    no_of_statements,          \* program.statements.len()
    statements_functions_map,  \* UnorderedHashMap<StatementIdx, String>
    locations,                 \* statement_locations.locations.iter_sorted()
    diagnostic_locations,      \* IndexMap<StatementIdx, Vec<DiagnosticLocation>>
    idx,                       \* loop variable of the builder
    sierra_cairo_info_mapping, \* IndexMap<u64, CairoInfo>
    contract_content,          \* String
    src_ret,                   \* Option<Result<SierraCairoStatement, io::Error>>
    pcS,                       \* position of the source-table pass
    instructions,              \* cairo_program.instructions
    sierra_statement_info,     \* cairo_program.debug_info.sierra_statement_info
    index,                     \* enumerate() position over the instructions
    casm_instructions,         \* Vec<CasmInstruction>
    casm_sierra_mapping,       \* IndexMap<u64, Vec<u64>>
    sierra_statement_index,    \* running statement counter of the fold
    pcC,                       \* position of the instruction-table pass
    trace_log,                 \* the calls of trace_error: pc and printed lines
    passes,                    \* the running calls of compile / compile_contract
    fs,                        \* the files on disk: path -> content
    contracts,                 \* the contracts find_contracts returns
    contract_path,             \* the optional contract path of the caller
    diagnostics_ok,            \* whether diagnostics_reporter.ensure succeeds
    abi_functions,             \* the entry point functions the contract declares
    handed,                    \* the contracts handed to compile_prepared_db
    semantic_entry_points,     \* what extract_semantic_entrypoints returned
    entry_points_by_type,      \* the ContractEntryPoints of the class
    contract_ret,              \* what compile_contract_in_prepared_db returned
    pcK                        \* position of the contract compilation

srcVars == <<no_of_statements, statements_functions_map, locations,
             diagnostic_locations, idx, sierra_cairo_info_mapping,
             contract_content, src_ret, pcS>>
casmVars == <<instructions, sierra_statement_info, index, casm_instructions,
              casm_sierra_mapping, sierra_statement_index, pcC>>
traceVars == <<trace_log>>
passVars == <<passes, fs>>
contractVars == <<contracts, contract_path, diagnostics_ok, abi_functions, handed,
                  semantic_entry_points, entry_points_by_type, contract_ret, pcK>>
vars == <<srcVars, casmVars, traceVars, passVars, contractVars>>

\* ------------------------------------------------------------------ helpers
SeqsUpTo(S, n) == UNION {[1..k -> S] : k \in 0..n}

Range(s) == {s[i] : i \in 1..Len(s)}

RECURSIVE Flatten(_, _, _)
\* per[0] \o per[1] \o ... \o per[n-1], each element tagged with its index
Flatten(per, i, n) ==
    IF i >= n THEN <<>>
    ELSE [j \in 1..Len(per[i]) |-> [statement_idx |-> i, location |-> per[i][j]]]
         \o Flatten(per, i + 1, n)

\* ---------------------------------------------------------------- IndexMap
IdxKeys(m) == {m[i].key : i \in 1..Len(m)}

IdxHas(m, k) == k \in IdxKeys(m)

IdxPos(m, k) == CHOOSE i \in 1..Len(m) : m[i].key = k

IdxGet(m, k) == m[IdxPos(m, k)].val

IdxInsertFront(m, k, v) ==
    IF IdxHas(m, k)
    THEN [m EXCEPT ![IdxPos(m, k)].val = v]
    ELSE <<[key |-> k, val |-> v]>> \o m

\* IndexMap::insert: replaces the value in place, or appends a new entry
IdxInsert(m, k, v) ==
    IF IdxHas(m, k)
    THEN [m EXCEPT ![IdxPos(m, k)].val = v]
    ELSE Append(m, [key |-> k, val |-> v])

EntryPushOverwrite(m, k, v) ==
    IF IdxHas(m, k)
    THEN [m EXCEPT ![IdxPos(m, k)].val = <<v>>]
    ELSE Append(m, [key |-> k, val |-> <<v>>])

EntryPushFirstOnly(m, k, v) ==
    IF IdxHas(m, k) THEN m ELSE Append(m, [key |-> k, val |-> <<v>>])

\* m.entry(k).or_insert_with(Vec::new).push(v)
EntryPush(m, k, v) ==
    IF IdxHas(m, k)
    THEN [m EXCEPT ![IdxPos(m, k)].val = Append(@, v)]
    ELSE Append(m, [key |-> k, val |-> <<v>>])

\* ------------------------------------------------------ files of the database
ContractFile == "FileId(contract)"
LibFile == "FileId(lib.cairo)"
Files == {ContractFile, LibFile}

\* FileId::file_name
file_name(file_id) == IF file_id = ContractFile THEN "contract" ELSE "lib.cairo"

\* db.lookup_intern_file: the contract is a virtual file, the library is on disk
IsVirtual(file_id) == file_id = ContractFile

\* VirtualFile::content of the contract file
VirtualContent == <<"\n">>

\* db.file_content: the library file cannot be read
file_content(file_id) == IF file_id = ContractFile THEN <<VirtualContent>> ELSE <<>>

NewlinesBefore(text, off) == {i \in 1..off : text[i] = "\n"}

Max(S) == CHOOSE x \in S : \A y \in S : y <= x

\* TextOffset::position_in_file: None when the file has no content or the
\* offset lies outside it, else the zero-based line and column of the offset
position_in_file(off, file_id) ==
    LET content == file_content(file_id) IN
    IF content = <<>> THEN <<>>
    ELSE IF off > Len(content[1]) THEN <<>>
    ELSE LET nl == NewlinesBefore(content[1], off)
             line_offset == IF nl = {} THEN 0 ELSE Max(nl)
         IN << [line |-> Cardinality(nl), col |-> off - line_offset] >>

\* ------------------------------------------------------------------ inputs
FnNames == {"main"}

Nodes == [file_id : Files, offset : 0..MaxOff, width : 0..MaxWidth]

\* StableLocation::diagnostic_location: the span of the syntax node
diagnostic_location(node) ==
    [file_id |-> node.file_id,
     span |-> [start |-> node.offset, end |-> node.offset + node.width]]

\* ------------------------------------------------ get_diagnostic_locations
RECURSIVE get_diagnostic_locations_fold(_, _)
\* the fold of lines 166-174 over the collected (statement_idx, location) pairs
get_diagnostic_locations_fold(pairs, acc) ==
    IF pairs = <<>> THEN acc
    ELSE get_diagnostic_locations_fold(
             Tail(pairs),
             EntryPush(acc, Head(pairs).statement_idx, Head(pairs).location))

get_diagnostic_locations(sorted) ==
    get_diagnostic_locations_fold(
        [i \in 1..Len(sorted) |->
            [statement_idx |-> sorted[i].statement_idx,
             location |-> diagnostic_location(sorted[i].location)]],
        <<>>)

\* ------------------------------- generate_sierra_to_cairo_statement_info
ZeroPosition == [line |-> 0, col |-> 0]

\* match position { Some(position) => TextPosition {..}, None => {0, 0} }
text_position(position) ==
    IF position # <<>>
    THEN [line |-> position[1].line, col |-> position[1].col]
    ELSE ZeroPosition

cairo_location_swapped(location) ==
    [file_name |-> file_name(location.file_id),
     start |-> text_position(position_in_file(location.span.end, location.file_id)),
     end |-> text_position(position_in_file(location.span.start, location.file_id))]

\* the CairoLocation built for one diagnostic location
cairo_location(location) ==
    [file_name |-> file_name(location.file_id),
     start |-> text_position(position_in_file(location.span.start, location.file_id)),
     end |-> text_position(position_in_file(location.span.end, location.file_id))]

\* the contract text after one location has been seen
capture_contract(content, file_id) ==
    IF content = <<>> /\ file_name(file_id) = "contract" /\ IsVirtual(file_id)
    THEN VirtualContent
    ELSE content

push_location_front(cairo_locations, loc) ==
    IF cairo_locations # <<>>
    THEN << <<loc>> \o cairo_locations[1] >>
    ELSE << <<loc>> >>

\* if let Some(locations) = cairo_locations { push } else { Some(vec![..]) }
push_location(cairo_locations, loc) ==
    IF cairo_locations # <<>>
    THEN << Append(cairo_locations[1], loc) >>
    ELSE << <<loc>> >>

RECURSIVE for_location_skip_unresolved(_, _)
for_location_skip_unresolved(locs, acc) ==
    IF locs = <<>> THEN acc
    ELSE for_location_skip_unresolved(
             Tail(locs),
             [cairo_locations |->
                  IF position_in_file(Head(locs).span.start, Head(locs).file_id) = <<>>
                     \/ position_in_file(Head(locs).span.end, Head(locs).file_id) = <<>>
                  THEN acc.cairo_locations
                  ELSE push_location(acc.cairo_locations, cairo_location(Head(locs))),
              contract_content |->
                  capture_contract(acc.contract_content, Head(locs).file_id)])

RECURSIVE for_location(_, _)
\* for location in locations { .. }: acc is (cairo_locations, contract_content)
for_location(locs, acc) ==
    IF locs = <<>> THEN acc
    ELSE for_location(
             Tail(locs),
             [cairo_locations |->
                  push_location(acc.cairo_locations, cairo_location(Head(locs))),
              contract_content |->
                  capture_contract(acc.contract_content, Head(locs).file_id)])

with_function_name_always(mapping, i) ==
    IF IdxHas(mapping, i) THEN mapping
    ELSE IdxInsert(mapping, i,
                   [fn_name |-> IF i \in DOMAIN statements_functions_map
                                THEN statements_functions_map[i] ELSE "",
                    cairo_locations |-> <<>>])

\* the first half of the loop body: the function name of statement i
with_function_name(mapping, i) ==
    IF i \in DOMAIN statements_functions_map
    THEN IF IdxHas(mapping, i)
         THEN [mapping EXCEPT ![IdxPos(mapping, i)].val.fn_name =
                                  statements_functions_map[i]]
         ELSE IdxInsert(mapping, i, [fn_name |-> statements_functions_map[i],
                                     cairo_locations |-> <<>>])
    ELSE mapping

\* compile_prepared_db_program calls get_diagnostic_locations before the builder
GetDiagnosticLocations ==
    /\ pcS = "start"
    /\ diagnostic_locations' = get_diagnostic_locations(locations)
    /\ pcS' = "loop"
    /\ UNCHANGED <<no_of_statements, statements_functions_map, locations, idx,
                   sierra_cairo_info_mapping, contract_content, src_ret>>
    /\ UNCHANGED <<casmVars, traceVars, passVars, contractVars>>

\* one iteration of for idx in 0..no_of_statements
GenerateStatement ==
    /\ pcS = "loop"
    /\ idx < no_of_statements
    /\ LET named == with_function_name(sierra_cairo_info_mapping, idx)
           walk == IdxHas(diagnostic_locations, idx) /\ IdxHas(named, idx)
           after == IF walk
                    THEN for_location(
                             IdxGet(diagnostic_locations, idx),
                             [cairo_locations |-> IdxGet(named, idx).cairo_locations,
                              contract_content |-> contract_content])
                    ELSE [cairo_locations |-> <<>>,
                          contract_content |-> contract_content]
       IN /\ sierra_cairo_info_mapping' =
                 IF walk
                 THEN [named EXCEPT ![IdxPos(named, idx)].val.cairo_locations =
                                        after.cairo_locations]
                 ELSE named
          /\ contract_content' = after.contract_content
    /\ idx' = idx + 1
    /\ UNCHANGED <<no_of_statements, statements_functions_map, locations,
                   diagnostic_locations, src_ret, pcS>>
    /\ UNCHANGED <<casmVars, traceVars, passVars, contractVars>>

\* Ok(SierraCairoStatement { contract_code, sierra_cairo_statement_info })
GenerateReturn ==
    /\ pcS = "loop"
    /\ idx = no_of_statements
    /\ src_ret' = <<"Ok">>
    /\ pcS' = "done"
    /\ UNCHANGED <<no_of_statements, statements_functions_map, locations,
                   diagnostic_locations, idx, sierra_cairo_info_mapping,
                   contract_content>>
    /\ UNCHANGED <<casmVars, traceVars, passVars, contractVars>>

\* the state before compile_prepared_db_program builds the table
SrcStart(n, fns, per) ==
    /\ no_of_statements = n
    /\ statements_functions_map = fns
    /\ locations = Flatten(per, 0, n)
    /\ diagnostic_locations = <<>>
    /\ idx = 0
    /\ sierra_cairo_info_mapping = <<>>
    /\ contract_content = <<>>
    /\ src_ret = <<>>
    /\ pcS = "start"

\* no lookup made, no pass of the service running, no file on disk
TraceIdle == trace_log = <<>>

PassIdle == passes = <<>> /\ fs = [dirs |-> {}, files |-> {}]

\* no contract compilation under way
ContractIdle ==
    /\ contracts = <<>>
    /\ contract_path = <<>>
    /\ diagnostics_ok = TRUE
    /\ abi_functions = <<>>
    /\ handed = <<>>
    /\ semantic_entry_points = <<>>
    /\ entry_points_by_type = <<>>
    /\ contract_ret = <<>>
    /\ pcK = "idle"

CasmIdle ==
    /\ instructions = <<>>
    /\ sierra_statement_info = <<>>
    /\ index = 0
    /\ casm_instructions = <<>>
    /\ casm_sierra_mapping = <<>>
    /\ sierra_statement_index = 0
    /\ pcC = "idle"

InitSrc ==
    /\ \E n \in 0..MaxN :
         \E D \in SUBSET (0..(n - 1)) :
           \E fns \in [D -> FnNames] :
             \E per \in [0..(n - 1) -> SeqsUpTo(Nodes, MaxLocs)] :
               SrcStart(n, fns, per)
    /\ CasmIdle
    /\ TraceIdle
    /\ PassIdle
    /\ ContractIdle

NextSrc == GetDiagnosticLocations \/ GenerateStatement \/ GenerateReturn

SpecSrc == InitSrc /\ [][NextSrc]_vars

\* ----------------------------------------------------- the CASM instructions
Opcodes == {"Ret", "AssertEq"}

\* an instruction of the program: its opcode and its optional immediate
Instructions == [opcode : Opcodes, imm : {<<>>} \cup {<<v>> : v \in 0..MaxImm}]

\* Instruction::assemble: the structural fields of the instruction
assemble(instruction) ==
    [opcode |-> instruction.opcode,
     imm |-> instruction.imm,
     op1_addr |-> IF instruction.imm # <<>> THEN "Imm" ELSE "AP"]

\* the opcode bits of the flags word
opcode_bits(opcode) == IF opcode = "Ret" THEN 8192 ELSE 16384

\* InstructionRepr::encode: the flags word, then the immediate when there is one
encode(repr) ==
    <<opcode_bits(repr.opcode)>> \o (IF repr.imm # <<>> THEN <<repr.imm[1]>> ELSE <<>>)

HexDigit(d) ==
    CASE d = 0 -> "0" [] d = 1 -> "1" [] d = 2 -> "2" [] d = 3 -> "3"
      [] d = 4 -> "4" [] d = 5 -> "5" [] d = 6 -> "6" [] d = 7 -> "7"
      [] d = 8 -> "8" [] d = 9 -> "9" [] d = 10 -> "a" [] d = 11 -> "b"
      [] d = 12 -> "c" [] d = 13 -> "d" [] d = 14 -> "e" [] d = 15 -> "f"

RECURSIVE HexDigits(_)
HexDigits(n) == IF n < 16 THEN <<HexDigit(n)>>
                ELSE Append(HexDigits(n \div 16), HexDigit(n % 16))

\* format!("0x{:x}", encoded_instruction)
hex_instruction(word) == <<"0", "x">> \o HexDigits(word)

\* the InstructionRepr of the entry: the enums mapped to their *I twins
instruction_repr(repr) ==
    [opcode |-> repr.opcode, imm |-> repr.imm, op1_addr |-> repr.op1_addr]

encoded_entries_first_only(i, instruction) ==
    << [memory |-> hex_instruction(encode(assemble(instruction))[1]),
        instruction_index |-> i,
        instruction_representation |-> <<instruction_repr(assemble(instruction))>>] >>

encoded_entries_all_repr(i, instruction) ==
    LET words == encode(assemble(instruction)) IN
    [w \in 1..Len(words) |->
        [memory |-> hex_instruction(words[w]),
         instruction_index |-> i,
         instruction_representation |-> <<instruction_repr(assemble(instruction))>>]]

encoded_entries_zero_index(i, instruction) ==
    LET words == encode(assemble(instruction)) IN
    [w \in 1..Len(words) |->
        [memory |-> hex_instruction(words[w]),
         instruction_index |-> 0,
         instruction_representation |->
             IF w = 1 THEN <<instruction_repr(assemble(instruction))>> ELSE <<>>]]

\* the inner loop: one entry per encoded word, the first with the representation
encoded_entries(i, instruction) ==
    LET words == encode(assemble(instruction)) IN
    [w \in 1..Len(words) |->
        [memory |-> hex_instruction(words[w]),
         instruction_index |-> i,
         instruction_representation |->
             IF w = 1 THEN <<instruction_repr(assemble(instruction))>> ELSE <<>>]]

\* one iteration of for (index, instruction) in instructions.iter().enumerate()
PushInstruction ==
    /\ pcC = "run"
    /\ index < Len(instructions)
    /\ casm_instructions' =
           casm_instructions \o encoded_entries(index, instructions[index + 1])
    /\ index' = index + 1
    /\ UNCHANGED <<instructions, sierra_statement_info, casm_sierra_mapping,
                   sierra_statement_index, pcC>>
    /\ UNCHANGED <<srcVars, traceVars, passVars, contractVars>>

\* one iteration of for sierra_statement_debug_info in sierra_statement_info.iter()
FoldStatement ==
    /\ pcC = "run"
    /\ index = Len(instructions)
    /\ sierra_statement_index < Len(sierra_statement_info)
    /\ casm_sierra_mapping' =
           EntryPush(casm_sierra_mapping,
                     sierra_statement_info[sierra_statement_index + 1].instruction_idx,
                     sierra_statement_index)
    /\ sierra_statement_index' = sierra_statement_index + 1
    /\ UNCHANGED <<instructions, sierra_statement_info, index, casm_instructions, pcC>>
    /\ UNCHANGED <<srcVars, traceVars, passVars, contractVars>>

\* Ok(CasmSierraMappingInstruction { casm_instructions, casm_sierra_mapping })
CasmReturn ==
    /\ pcC = "run"
    /\ index = Len(instructions)
    /\ sierra_statement_index = Len(sierra_statement_info)
    /\ pcC' = "done"
    /\ UNCHANGED <<instructions, sierra_statement_info, index, casm_instructions,
                   casm_sierra_mapping, sierra_statement_index>>
    /\ UNCHANGED <<srcVars, traceVars, passVars, contractVars>>

\* the state when get_casm_sierra_mapping_instructions is entered
CasmStart(instrs, info) ==
    /\ instructions = instrs
    /\ sierra_statement_info = info
    /\ index = 0
    /\ casm_instructions = <<>>
    /\ casm_sierra_mapping = <<>>
    /\ sierra_statement_index = 0
    /\ pcC = "run"

\* the debug annotations of m statements over k instructions
StatementInfos(m, k) == [1..m -> [instruction_idx : 0..k]]

SrcIdle ==
    /\ no_of_statements = 0
    /\ statements_functions_map = <<>>
    /\ locations = <<>>
    /\ diagnostic_locations = <<>>
    /\ idx = 0
    /\ sierra_cairo_info_mapping = <<>>
    /\ contract_content = <<>>
    /\ src_ret = <<>>
    /\ pcS = "idle"

InitCasm ==
    /\ SrcIdle
    /\ TraceIdle
    /\ PassIdle
    /\ ContractIdle
    /\ \E instrs \in SeqsUpTo(Instructions, MaxInstr) :
         \E m \in 0..MaxInfo :
           \E info \in StatementInfos(m, Len(instrs)) :
             CasmStart(instrs, info)

NextCasm == PushInstruction \/ FoldStatement \/ CasmReturn

SpecCasm == InitCasm /\ [][NextCasm]_vars

\* ------------------------------------------------------------- one compile pass
\* compile: compile_cairo, then compile_sierra_to_casm on the printed program;
\* each statement has one location and one debug annotation
Init ==
    /\ \E n \in 0..MaxN :
         \E D \in SUBSET (0..(n - 1)) :
           \E fns \in [D -> FnNames] :
             \E per \in [0..(n - 1) -> SeqsUpTo(Nodes, 1)] :
               /\ SrcStart(n, fns, per)
               /\ \E instrs \in SeqsUpTo(Instructions, MaxInstr) :
                    \E info \in StatementInfos(n, Len(instrs)) :
                      CasmStart(instrs, info)
    /\ TraceIdle
    /\ PassIdle
    /\ ContractIdle

Next ==
    \/ GetDiagnosticLocations
    \/ GenerateStatement
    \/ GenerateReturn
    \/ (pcS = "done" /\ PushInstruction)
    \/ (pcS = "done" /\ FoldStatement)
    \/ (pcS = "done" /\ CasmReturn)

Spec == Init /\ [][Next]_vars

\* ------------------------------------------------------------- trace_error
\* the line printed when no key of casm_sierra_mapping equals pc
NotFoundLine(pc) ==
    [text |-> "No instruction found at program counter", pc |-> <<pc>>,
     cairo_locations |-> <<>>]

\* the line printed for a listed statement that has a record
LocationsLine(cairo_info) ==
    [text |-> "cairo_locations", pc |-> <<>>,
     cairo_locations |-> cairo_info.cairo_locations]

\* casm_sierra_mapping.iter().find(|(i, _)| **i == pc)
find_instruction(mapping, pc) ==
    LET hits == {e \in 1..Len(mapping) : mapping[e].key = pc} IN
    IF hits = {} THEN <<>>
    ELSE << mapping[CHOOSE e \in hits : \A f \in hits : e <= f].val >>

RECURSIVE print_statements_reversed(_, _)
print_statements_reversed(indices, table) ==
    IF indices = <<>> THEN <<>>
    ELSE print_statements_reversed(Tail(indices), table)
         \o (IF IdxHas(table, Head(indices))
             THEN << LocationsLine(IdxGet(table, Head(indices))) >>
             ELSE <<>>)

RECURSIVE print_statements_unwrap(_, _)
print_statements_unwrap(indices, table) ==
    IF indices = <<>> THEN <<>>
    ELSE (IF IdxHas(table, Head(indices))
          THEN << LocationsLine(IdxGet(table, Head(indices))) >>
          ELSE << [text |-> "panicked: called Option::unwrap() on a None value",
                   pc |-> <<>>, cairo_locations |-> <<>>] >>)
         \o print_statements_unwrap(Tail(indices), table)

RECURSIVE print_statements(_, _)
\* the loop over the matched list: one line per statement that has a record,
\* in the order of the list; a statement without a record prints nothing
print_statements(indices, table) ==
    IF indices = <<>> THEN <<>>
    ELSE (IF IdxHas(table, Head(indices))
          THEN << LocationsLine(IdxGet(table, Head(indices))) >>
          ELSE <<>>)
         \o print_statements(Tail(indices), table)

trace_error_silent(pc, mapping, table) ==
    LET sierra_instruction == find_instruction(mapping, pc) IN
    IF sierra_instruction # <<>>
    THEN print_statements(sierra_instruction[1], table)
    ELSE <<>>

\* trace_error: the lines it prints for pc on a compilation result
trace_error(pc, mapping, table) ==
    LET sierra_instruction == find_instruction(mapping, pc) IN
    IF sierra_instruction # <<>>
    THEN print_statements(sierra_instruction[1], table)
    ELSE << NotFoundLine(pc) >>

TraceErrorConsuming ==
    /\ pcS = "done"
    /\ pcC = "done"
    /\ Len(trace_log) < MaxLookups
    /\ \E pc \in 0..MaxPc :
         /\ trace_log' = Append(trace_log,
                [pc |-> pc,
                 out |-> trace_error(pc, casm_sierra_mapping,
                                     sierra_cairo_info_mapping)])
         /\ casm_sierra_mapping' =
                SelectSeq(casm_sierra_mapping, LAMBDA e : e.key # pc)
    /\ UNCHANGED <<instructions, sierra_statement_info, index, casm_instructions,
                   sierra_statement_index, pcC>>
    /\ UNCHANGED <<srcVars, passVars, contractVars>>

\* one call of trace_error on the finished compilation result
TraceError ==
    /\ pcS = "done"
    /\ pcC = "done"
    /\ Len(trace_log) < MaxLookups
    /\ \E pc \in 0..MaxPc :
         trace_log' = Append(trace_log,
             [pc |-> pc,
              out |-> trace_error(pc, casm_sierra_mapping,
                                  sierra_cairo_info_mapping)])
    /\ UNCHANGED <<srcVars, casmVars, passVars, contractVars>>

\* the programs traced: locations in the contract file, two-word and one-word
\* assertions
TraceNodes == {node \in Nodes : node.file_id = ContractFile}

TraceInstructions == {i \in Instructions : i.opcode = "AssertEq"}

InitTrace ==
    /\ \E n \in 0..MaxN :
         \E D \in SUBSET (0..(n - 1)) :
           \E fns \in [D -> FnNames] :
             \E per \in [0..(n - 1) -> SeqsUpTo(TraceNodes, 1)] :
               /\ SrcStart(n, fns, per)
               /\ \E instrs \in SeqsUpTo(TraceInstructions, MaxInstr) :
                    \E info \in StatementInfos(n, Len(instrs)) :
                      CasmStart(instrs, info)
    /\ TraceIdle
    /\ PassIdle
    /\ ContractIdle

NextTrace ==
    \/ GetDiagnosticLocations
    \/ GenerateStatement
    \/ GenerateReturn
    \/ (pcS = "done" /\ PushInstruction)
    \/ (pcS = "done" /\ FoldStatement)
    \/ (pcS = "done" /\ CasmReturn)
    \/ TraceError

SpecTrace == InitTrace /\ [][NextTrace]_vars

\* ------------------------------------------- compile and compile_contract
\* A pass is one call of compile or compile_contract; the service runs the
\* passes of different requests at the same time.  A path is a directory, as
\* the sequence of its components, and a file name, as its dot-separated parts.
\* An error is the chain of its messages, outermost context first.
Entries == {"compile", "compile_contract"}

\* the code of a request: its text and the step of the toolchain it fails
Faults == {"none", "cairo", "parse", "metadata", "casm"}

Codes == [text : {"fib"}, fault : Faults] \cup {[text |-> "fact", fault |-> "none"]}

\* the file name of a request: "fib", "fib.cairo", "../fib", "../fib.cairo"
FileNames == [up : BOOLEAN, parts : {<<"fib">>, <<"fib", "cairo">>}]

\* std::env::temp_dir() and the random directory names tempdir() draws in it
TempRoot == <<"tmp">>

TempNames == <<".tmpA", ".tmpB", ".tmpC">>

tempdir(p) == Append(TempRoot, TempNames[p])

\* file_name.replace(".cairo", "") when the name ends with .cairo
strip_cairo(name) ==
    IF name.parts[Len(name.parts)] = "cairo"
    THEN [name EXCEPT !.parts = SelectSeq(@, LAMBDA part : part # "cairo")]
    ELSE name

\* dir.path().join(format!("{}.cairo", file_name)): a leading ".." leaves dir
join(dir, name, ext) ==
    [dir |-> IF name.up THEN SubSeq(dir, 1, Len(dir) - 1) ELSE dir,
     name |-> Append(name.parts, ext)]

\* Path::with_extension: the last part of the name is replaced
with_extension(path, ext) ==
    [path EXCEPT !.name = Append(SubSeq(@, 1, Len(@) - 1), ext)]

cairo_file_path(pass) ==
    join(pass.dir[1],
         IF pass.entry = "compile" THEN strip_cairo(pass.file_name)
         ELSE pass.file_name,
         "cairo")

sierra_file_path(pass) == with_extension(cairo_file_path(pass), "sierra")

\* fs::read_to_string: the content of the file at path, if there is one
read_to_string(disk, path) ==
    LET at == {f \in disk.files : f.path = path} IN
    IF at = {} THEN <<>> ELSE << (CHOOSE f \in at : TRUE).content >>

\* NamedTempFile::new_in, write_all, persist: the file at path is replaced
persist(disk, path, content) ==
    [disk EXCEPT !.files = {f \in @ : f.path # path}
                           \cup {[path |-> path, content |-> content]}]

\* TempDir::drop: the directory goes with everything in it
drop_dir(disk, dir) ==
    [dirs |-> disk.dirs \ {dir},
     files |-> {f \in disk.files : f.path.dir # dir}]

\* the values a pass ends with
Ok(cairo_sierra, casm_sierra) ==
    [kind |-> "Ok", cairo_sierra |-> cairo_sierra,
     casm_sierra |-> casm_sierra, chain |-> <<>>]

Err(chain) ==
    [kind |-> "Err", cairo_sierra |-> <<>>, casm_sierra |-> <<>>, chain |-> chain]

Panic(message) ==
    [kind |-> "Panic", cairo_sierra |-> <<>>, casm_sierra |-> <<>>,
     chain |-> <<message>>]

with_context(context, result) ==
    IF result.kind = "Err" THEN Err(<<context>> \o result.chain) ELSE result

IoError == "io error"

Diagnostics == "Compilation failed without any diagnostics"

\* the message of the parser's error: it quotes the text it could not parse
ParseError == "Unrecognized token fib found at 0:3"

\* FullProgram and SierraCompile, by the text they were compiled from
FullProgram(code) == [program |-> code, sierra_cairo_info_mapping |-> code.text]

SierraCompile(code) == [casm |-> code, casm_sierra_mapping_instruction |-> code.text]

\* the source file and the printed intermediate program of a code
CairoText(code) == [kind |-> "cairo", code |-> code]

SierraText(code) == [kind |-> "sierra", code |-> code]

\* the source-to-intermediate stage on the file at a path
compile_cairo(content) ==
    IF content = <<>> THEN Err(<<IoError>>)
    ELSE IF content[1].kind # "cairo" \/ content[1].code.fault = "cairo"
    THEN Err(<<Diagnostics>>)
    ELSE Ok(<< FullProgram(content[1].code) >>, <<>>)

compile_sierra_to_casm_fragment(content) ==
    IF content = <<>> THEN Panic("Could not read file!")
    ELSE IF content[1].kind # "sierra" \/ content[1].code.fault = "parse"
    THEN Err(<<"Failed to parse sierra program", ParseError>>)
    ELSE IF content[1].code.fault = "metadata"
    THEN Err(<<"Failed calculating Sierra variables.", "metadata error">>)
    ELSE IF content[1].code.fault = "casm"
    THEN Err(<<"Compilation failed.", "compilation error">>)
    ELSE Ok(<<>>, << SierraCompile(content[1].code) >>)

\* compile_sierra_to_casm on the file at a path
compile_sierra_to_casm(content) ==
    IF content = <<>> THEN Panic("Could not read file!")
    ELSE IF content[1].kind # "sierra" \/ content[1].code.fault = "parse"
    THEN Err(<<"Failed to parse sierra program">>)
    ELSE IF content[1].code.fault = "metadata"
    THEN Err(<<"Failed calculating Sierra variables.", "metadata error">>)
    ELSE IF content[1].code.fault = "casm"
    THEN Err(<<"Compilation failed.", "compilation error">>)
    ELSE Ok(<<>>, << SierraCompile(content[1].code) >>)

\* conpile_contract_sierra_to_casm on the file at a path
conpile_contract_sierra_to_casm(content) ==
    IF content = <<>> THEN Err(<<"Failed to read file.", IoError>>)
    ELSE IF content[1].kind # "sierra" \/ content[1].code.fault = "parse"
    THEN Err(<<"Deserialization failed.", "json error">>)
    ELSE IF content[1].code.fault = "metadata"
    THEN Err(<<"version error">>)
    ELSE IF content[1].code.fault = "casm"
    THEN Err(<<"Compilation failed.", "compilation error">>)
    ELSE Ok(<<>>, << SierraCompile(content[1].code) >>)

\* let cairo_sierra = full_program?;  in compile_contract: full_program.unwrap()
cairo_stage_failed(entry, result) ==
    IF entry = "compile" THEN result
    ELSE Panic("called Result::unwrap() on an Err value")

casm_stage_bare(entry, content) ==
    IF entry = "compile" THEN compile_sierra_to_casm(content)
    ELSE conpile_contract_sierra_to_casm(content)

\* the intermediate-to-final stage with .with_context(..) of the pass
casm_stage(entry, content) ==
    with_context("Failed to compile CASM program",
                 IF entry = "compile" THEN compile_sierra_to_casm(content)
                 ELSE conpile_contract_sierra_to_casm(content))

\* the pass p ends with ret; its directory is dropped when it had one
Return(p, ret) ==
    /\ passes' = [passes EXCEPT ![p].pc = "done", ![p].exit = passes[p].pc,
                                ![p].ret = <<ret>>]
    /\ fs' = IF passes[p].dir = <<>> THEN fs ELSE drop_dir(fs, passes[p].dir[1])

\* let dir = tempdir()?;
TempDir(p) ==
    /\ passes[p].pc = "tempdir"
    /\ \/ /\ passes' = [passes EXCEPT ![p].pc = "cairo_file",
                                      ![p].dir = <<tempdir(p)>>]
          /\ fs' = [fs EXCEPT !.dirs = @ \cup {tempdir(p)}]
       \/ Return(p, Err(<<IoError>>))
    /\ UNCHANGED <<srcVars, casmVars, traceVars, contractVars>>

\* the source is written to a temporary file that is moved to cairo_file_path
WriteCairo(p) ==
    /\ passes[p].pc = "cairo_file"
    /\ \/ /\ passes' = [passes EXCEPT ![p].pc = "compile_cairo"]
          /\ fs' = persist(fs, cairo_file_path(passes[p]), CairoText(passes[p].code))
       \/ Return(p, Err(<<IoError>>))
    /\ UNCHANGED <<srcVars, casmVars, traceVars, contractVars>>

\* compile_cairo(cairo_path) / compile_contract_cairo_to_sierra(cairo_path)
CompileCairo(p) ==
    /\ passes[p].pc = "compile_cairo"
    /\ LET full_program ==
               compile_cairo(read_to_string(fs, cairo_file_path(passes[p])))
       IN IF full_program.kind = "Ok"
          THEN /\ passes' = [passes EXCEPT ![p].pc = "sierra_file",
                               ![p].cairo_sierra = full_program.cairo_sierra]
               /\ fs' = fs
          ELSE Return(p, cairo_stage_failed(passes[p].entry, full_program))
    /\ UNCHANGED <<srcVars, casmVars, traceVars, contractVars>>

\* the intermediate program is printed to a file moved to sierra_file_path
WriteSierra(p) ==
    /\ passes[p].pc = "sierra_file"
    /\ \/ /\ passes' = [passes EXCEPT ![p].pc = "compile_casm"]
          /\ fs' = persist(fs, sierra_file_path(passes[p]),
                           SierraText(passes[p].cairo_sierra[1].program))
       \/ Return(p, Err(<<IoError>>))
    /\ UNCHANGED <<srcVars, casmVars, traceVars, contractVars>>

\* the second stage on sierra_path, then Ok(CompilationResult {..}) or the error
CompileCasm(p) ==
    /\ passes[p].pc = "compile_casm"
    /\ LET sierra_program == read_to_string(fs, sierra_file_path(passes[p]))
           casm_program == casm_stage(passes[p].entry, sierra_program)
       IN /\ passes' = [passes EXCEPT
                 ![p].pc = "done",
                 ![p].exit = "compile_casm",
                 ![p].sierra_program = sierra_program,
                 ![p].ret = << IF casm_program.kind = "Ok"
                               THEN Ok(passes[p].cairo_sierra,
                                       casm_program.casm_sierra)
                               ELSE casm_program >>]
          /\ fs' = drop_dir(fs, passes[p].dir[1])
    /\ UNCHANGED <<srcVars, casmVars, traceVars, contractVars>>

\* a request as it enters compile or compile_contract
NewPass(entry, code, name) ==
    [entry |-> entry, code |-> code, file_name |-> name, pc |-> "tempdir",
     dir |-> <<>>, cairo_sierra |-> <<>>, sierra_program |-> <<>>,
     exit |-> "", ret |-> <<>>]

InitPass ==
    /\ SrcIdle
    /\ CasmIdle
    /\ TraceIdle
    /\ ContractIdle
    /\ fs = [dirs |-> {}, files |-> {}]
    /\ passes \in [1..MaxPasses ->
                     {NewPass(entry, code, name) :
                        entry \in Entries, code \in Codes, name \in FileNames}]

NextPass ==
    \E p \in 1..MaxPasses :
        \/ TempDir(p)
        \/ WriteCairo(p)
        \/ CompileCairo(p)
        \/ WriteSierra(p)
        \/ CompileCasm(p)

SpecPass == InitPass /\ [][NextPass]_vars

\* ------------------------------------------ compile_contract_in_prepared_db
\* A contract is known by the full path of its submodule.  An entry point
\* function has the module it is declared in, the selector of its alias and
\* the id of its Sierra function.
ContractPaths == {"a::A", "b::B", "c::C"}

Modules == {"external", "l1_handler", "constructor"}

Functions == [module : Modules, selector : 0..MaxSelector]

\* the functions a contract declares: the Sierra id is the place of declaration
Declared(fns) ==
    [i \in 1..Len(fns) |->
        [module |-> fns[i].module, selector |-> fns[i].selector, function_idx |-> i]]

ContractOk(class) == [kind |-> "Ok", error |-> "", class |-> <<class>>]

ContractErr(message) == [kind |-> "Err", error |-> message, class |-> <<>>]

\* contracts.retain(|contract| contract.submodule_id.full_path(db) == contract_path)
retain(found, path) ==
    IF path = <<>> THEN found
    ELSE SelectSeq(found, LAMBDA contract : contract = path[1])

select_contract_first(found, diagnostics) ==
    IF Len(found) = 0
    THEN IF diagnostics THEN ContractErr("Contract not found.")
         ELSE ContractErr("diagnostics")
    ELSE ContractOk(found[1])

\* match contracts.len(): the one contract, or the error of the pass
select_contract(found, diagnostics) ==
    IF Len(found) = 0
    THEN IF diagnostics THEN ContractErr("Contract not found.")
         ELSE ContractErr("diagnostics")
    ELSE IF Len(found) = 1 THEN ContractOk(found[1])
    ELSE ContractErr("More than one contract found in the main crate")

\* get_contract_abi_functions(db, contract, MODULE): in declaration order
get_contract_abi_functions(fns, module) ==
    SelectSeq(fns, LAMBDA f : f.module = module)

extract_semantic_entrypoints_unchecked(fns) ==
    [kind |-> "Ok", error |-> "",
     external |-> get_contract_abi_functions(fns, "external"),
     l1_handler |-> get_contract_abi_functions(fns, "l1_handler"),
     constructor |-> get_contract_abi_functions(fns, "constructor")]

\* extract_semantic_entrypoints: the three lists, or the constructor error
extract_semantic_entrypoints(fns) ==
    IF Len(get_contract_abi_functions(fns, "constructor")) > 1
    THEN [kind |-> "Err", error |-> "Expected at most one constructor.",
          external |-> <<>>, l1_handler |-> <<>>, constructor |-> <<>>]
    ELSE [kind |-> "Ok", error |-> "",
          external |-> get_contract_abi_functions(fns, "external"),
          l1_handler |-> get_contract_abi_functions(fns, "l1_handler"),
          constructor |-> get_contract_abi_functions(fns, "constructor")]

\* the ContractEntryPoint pushed for one function
ContractEntryPoint(f) == [selector |-> f.selector, function_idx |-> f.function_idx]

\* the place of x in a list sorted by selector: behind every equal selector
insert_sorted(sorted, x) ==
    LET k == Cardinality({i \in 1..Len(sorted) : sorted[i].selector <= x.selector})
    IN SubSeq(sorted, 1, k) \o <<x>> \o SubSeq(sorted, k + 1, Len(sorted))

RECURSIVE sort_by_selector(_)
\* entry_points.sort_by(|a, b| a.selector.cmp(&b.selector)): a stable sort
sort_by_selector(entry_points) ==
    IF entry_points = <<>> THEN <<>>
    ELSE insert_sorted(
             sort_by_selector(SubSeq(entry_points, 1, Len(entry_points) - 1)),
             entry_points[Len(entry_points)])

get_entry_points_unsorted(entry_point_functions) ==
    [i \in 1..Len(entry_point_functions) |->
        ContractEntryPoint(entry_point_functions[i])]

\* get_entry_points: one entry point per function, sorted by selector
get_entry_points(entry_point_functions) ==
    sort_by_selector(
        [i \in 1..Len(entry_point_functions) |->
            ContractEntryPoint(entry_point_functions[i])])

\* find_contracts, the filter and the match on the number of contracts left
SelectContract ==
    /\ pcK = "select"
    /\ LET found == retain(contracts, contract_path)
           chosen == select_contract(found, diagnostics_ok)
       IN /\ contracts' = found
          /\ IF chosen.kind = "Ok"
             THEN /\ handed' = chosen.class
                  /\ contract_ret' = <<>>
                  /\ pcK' = "compile_prepared_db"
             ELSE /\ handed' = <<>>
                  /\ contract_ret' = <<chosen>>
                  /\ pcK' = "done"
    /\ UNCHANGED <<contract_path, diagnostics_ok, abi_functions,
                   semantic_entry_points, entry_points_by_type>>
    /\ UNCHANGED <<srcVars, casmVars, traceVars, passVars>>

\* compile_prepared_db: compiler_config.diagnostics_reporter.ensure(db)?
CompilePreparedDb ==
    /\ pcK = "compile_prepared_db"
    /\ IF diagnostics_ok
       THEN /\ pcK' = "extract"
            /\ contract_ret' = contract_ret
       ELSE /\ pcK' = "done"
            /\ contract_ret' = <<ContractErr("diagnostics")>>
    /\ UNCHANGED <<contracts, contract_path, diagnostics_ok, abi_functions, handed,
                   semantic_entry_points, entry_points_by_type>>
    /\ UNCHANGED <<srcVars, casmVars, traceVars, passVars>>

\* let SemanticEntryPoints { .. } = extract_semantic_entrypoints(db, contract)?;
ExtractSemanticEntrypoints ==
    /\ pcK = "extract"
    /\ LET extracted == extract_semantic_entrypoints(abi_functions) IN
       /\ semantic_entry_points' = <<extracted>>
       /\ IF extracted.kind = "Ok"
          THEN /\ pcK' = "entry_points"
               /\ contract_ret' = contract_ret
          ELSE /\ pcK' = "done"
               /\ contract_ret' = <<ContractErr(extracted.error)>>
    /\ UNCHANGED <<contracts, contract_path, diagnostics_ok, abi_functions, handed,
                   entry_points_by_type>>
    /\ UNCHANGED <<srcVars, casmVars, traceVars, passVars>>

\* let entry_points_by_type = ContractEntryPoints { .. };
GetEntryPoints ==
    /\ pcK = "entry_points"
    /\ entry_points_by_type' =
           << [external |-> get_entry_points(semantic_entry_points[1].external),
               l1_handler |-> get_entry_points(semantic_entry_points[1].l1_handler),
               constructor |-> get_entry_points(semantic_entry_points[1].constructor)] >>
    /\ pcK' = "class"
    /\ UNCHANGED <<contracts, contract_path, diagnostics_ok, abi_functions, handed,
                   semantic_entry_points, contract_ret>>
    /\ UNCHANGED <<srcVars, casmVars, traceVars, passVars>>

\* Ok(FullProgram { contract_class, .. }), then Ok(classes.remove(0))
ContractReturn ==
    /\ pcK = "class"
    /\ contract_ret' =
           << ContractOk([contract |-> handed[1],
                          entry_points_by_type |-> entry_points_by_type[1]]) >>
    /\ pcK' = "done"
    /\ UNCHANGED <<contracts, contract_path, diagnostics_ok, abi_functions, handed,
                   semantic_entry_points, entry_points_by_type>>
    /\ UNCHANGED <<srcVars, casmVars, traceVars, passVars>>

\* the main crate declares up to MaxContracts contracts of different paths
ContractLists ==
    {found \in SeqsUpTo(ContractPaths, MaxContracts) :
        \A i, j \in 1..Len(found) : i # j => found[i] # found[j]}

InitContract ==
    /\ SrcIdle
    /\ CasmIdle
    /\ TraceIdle
    /\ PassIdle
    /\ contracts \in ContractLists
    /\ contract_path \in {<<>>} \cup {<<path>> : path \in ContractPaths}
    /\ diagnostics_ok \in BOOLEAN
    /\ abi_functions \in {Declared(fns) : fns \in SeqsUpTo(Functions, MaxFns)}
    /\ handed = <<>>
    /\ semantic_entry_points = <<>>
    /\ entry_points_by_type = <<>>
    /\ contract_ret = <<>>
    /\ pcK = "select"

NextContract ==
    \/ SelectContract
    \/ CompilePreparedDb
    \/ ExtractSemanticEntrypoints
    \/ GetEntryPoints
    \/ ContractReturn

SpecContract == InitContract /\ [][NextContract]_vars

\* ------------------------------------------------------------------ claims
\* the diagnostic locations the diagnostics subsystem reported for statement i,
\* in the order it reported them
ReportedFor(i) ==
    LET OfStatement(e) == e.statement_idx = i
        mine == SelectSeq(locations, OfStatement)
    IN [j \in 1..Len(mine) |-> diagnostic_location(mine[j].location)]

\* the spans of a record: a record without locations has none
Spans(info) == IF info.cairo_locations = <<>> THEN <<>> ELSE info.cairo_locations[1]

Resolves(off, file_id) == position_in_file(off, file_id) # <<>>

PosLe(a, b) == a.line < b.line \/ (a.line = b.line /\ a.col <= b.col)

Table == sierra_cairo_info_mapping

\* C1: the table returned by generate_sierra_to_cairo_statement_info has exactly
\* N entries and its key set is 0..N-1, however sparse the fact maps are.
C1_DenseTable ==
    pcS = "done" =>
        /\ Len(Table) = no_of_statements
        /\ IdxKeys(Table) = 0..(no_of_statements - 1)

\* C2: every statement index listed in casm_sierra_mapping is a key of
\* sierra_cairo_info_mapping of the same compilation result.
C2_ListedStatementsHaveRecords ==
    (pcS = "done" /\ pcC = "done") =>
        \A e \in 1..Len(casm_sierra_mapping) :
            \A s \in Range(casm_sierra_mapping[e].val) : IdxHas(Table, s)

\* C3: every index i in 0..N has a record holding exactly one span per
\* diagnostic location of i, whether or not i has a function name.
C3_OneSpanPerLocation ==
    pcS = "done" =>
        \A i \in 0..(no_of_statements - 1) :
            /\ IdxHas(Table, i)
            /\ Len(Spans(IdxGet(Table, i))) = Len(ReportedFor(i))

\* C4: the spans of a record are the reported locations of its statement, in
\* the reported order, one span per location even when locations repeat.
C4_SpansInReportedOrder ==
    pcS = "done" =>
        \A e \in 1..Len(Table) :
            LET locs == ReportedFor(Table[e].key)
                spans == Spans(Table[e].val)
            IN /\ Len(spans) = Len(locs)
               /\ \A j \in 1..Len(locs) : spans[j] = cairo_location(locs[j])

\* two identical locations gave two spans, and two locations with different
\* spans kept their order
C4_Witness ==
    /\ pcS = "done"
    /\ \E e \in 1..Len(Table) :
         LET locs == ReportedFor(Table[e].key) IN
         /\ Len(locs) = 2 /\ locs[1] = locs[2]
         /\ Len(Spans(Table[e].val)) = 2
    /\ \E e \in 1..Len(Table) :
         LET spans == Spans(Table[e].val) IN
         Len(spans) = 2 /\ spans[1] # spans[2]

\* C5: an offset that does not resolve is recorded as {line 0, col 0}; the span
\* is still emitted, the locations and statements after it are still
\* processed, and the builder returns Ok.
C5_UnresolvedIsZeroAndContinues ==
    pcS = "done" =>
        /\ src_ret = <<"Ok">>
        /\ \A i \in 0..(no_of_statements - 1) :
             i \in DOMAIN statements_functions_map =>
                 /\ IdxHas(Table, i)
                 /\ LET locs == ReportedFor(i)
                        spans == Spans(IdxGet(Table, i))
                    IN /\ Len(spans) = Len(locs)
                       /\ \A j \in 1..Len(locs) :
                            /\ ~Resolves(locs[j].span.start, locs[j].file_id)
                                   => spans[j].start = ZeroPosition
                            /\ ~Resolves(locs[j].span.end, locs[j].file_id)
                                   => spans[j].end = ZeroPosition

\* the first location of statement 0 did not resolve, its second location and
\* statement 1 were processed all the same
C5_Witness ==
    /\ pcS = "done"
    /\ no_of_statements = 2
    /\ IdxHas(Table, 0) /\ IdxHas(Table, 1)
    /\ LET locs == ReportedFor(0) IN
       /\ Len(locs) = 2
       /\ ~Resolves(locs[1].span.end, locs[1].file_id)
       /\ Resolves(locs[2].span.end, locs[2].file_id)
       /\ Len(Spans(IdxGet(Table, 0))) = 2
       /\ Spans(IdxGet(Table, 0))[1].end = ZeroPosition
    /\ Len(Spans(IdxGet(Table, 1))) >= 1

\* C6 as stated: every span has start <= end in (line, col) order whenever
\* every raw location has start offset <= end offset.
C6_SpanOrdered ==
    pcS = "done" =>
        \A e \in 1..Len(Table) :
            LET locs == ReportedFor(Table[e].key)
                spans == Spans(Table[e].val)
            IN \A j \in 1..Len(spans) :
                   locs[j].span.start <= locs[j].span.end
                       => PosLe(spans[j].start, spans[j].end)

\* C6 amended: the order holds when the end offset resolves or the start
\* offset does not, that is unless the end offset alone fails to resolve.
C6_SpanOrderedUnlessOnlyEndFails ==
    pcS = "done" =>
        \A e \in 1..Len(Table) :
            LET locs == ReportedFor(Table[e].key)
                spans == Spans(Table[e].val)
            IN \A j \in 1..Len(spans) :
                   (/\ locs[j].span.start <= locs[j].span.end
                    /\ \/ Resolves(locs[j].span.end, locs[j].file_id)
                       \/ ~Resolves(locs[j].span.start, locs[j].file_id))
                       => PosLe(spans[j].start, spans[j].end)

\* a span whose two offsets resolve to different positions, and a span whose
\* offsets both fail to resolve
C6_Witness ==
    /\ pcS = "done"
    /\ \E e \in 1..Len(Table) : \E j \in 1..Len(Spans(Table[e].val)) :
         LET loc == ReportedFor(Table[e].key)[j]
             span == Spans(Table[e].val)[j]
         IN /\ Resolves(loc.span.start, loc.file_id)
            /\ Resolves(loc.span.end, loc.file_id)
            /\ span.start # span.end
    /\ \E e \in 1..Len(Table) : \E j \in 1..Len(Spans(Table[e].val)) :
         LET loc == ReportedFor(Table[e].key)[j]
         IN ~Resolves(loc.span.start, loc.file_id)

\* the entries of casm_instructions that belong to instruction ordinal i
EntriesOf(i) ==
    {p \in 1..Len(casm_instructions) : casm_instructions[p].instruction_index = i}

WordsOf(i) == Len(encode(assemble(instructions[i + 1])))

RECURSIVE TotalWords(_)
TotalWords(k) == IF k = 0 THEN 0 ELSE TotalWords(k - 1) + WordsOf(k - 1)

\* C7: casm_instructions has as many entries of ordinal i as the encoding of
\* instruction i has words, so its length is the encoded length of the stream.
C7_OneEntryPerWord ==
    pcC = "done" =>
        /\ \A i \in 0..(Len(instructions) - 1) :
               Cardinality(EntriesOf(i)) = WordsOf(i)
        /\ Len(casm_instructions) = TotalWords(Len(instructions))

\* a two-instruction program with a two-word instruction
C7_Witness ==
    /\ pcC = "done"
    /\ Len(instructions) = 2
    /\ \E i \in 0..1 : WordsOf(i) = 2 /\ Cardinality(EntriesOf(i)) = 2

\* C8: of the entries of one ordinal exactly one carries
\* instruction_representation, and it is the first of them.
C8_RepresentationOnFirstEntryOnly ==
    pcC = "done" =>
        \A p \in 1..Len(casm_instructions) :
            LET mine == EntriesOf(casm_instructions[p].instruction_index)
                first == CHOOSE q \in mine : \A r \in mine : q <= r
            IN /\ casm_instructions[first].instruction_representation # <<>>
               /\ \A q \in mine \ {first} :
                      casm_instructions[q].instruction_representation = <<>>

\* a two-word instruction: the first entry has the representation, the second none
C8_Witness ==
    /\ pcC = "done"
    /\ \E p \in 1..(Len(casm_instructions) - 1) :
         /\ casm_instructions[p].instruction_index =
                casm_instructions[p + 1].instruction_index
         /\ casm_instructions[p].instruction_representation # <<>>
         /\ casm_instructions[p + 1].instruction_representation = <<>>

\* C9: instruction_index is non-decreasing along casm_instructions, the entries
\* of one ordinal are contiguous and the ordinals are exactly 0..K-1.
C9_CountAndOrderKept ==
    pcC = "done" =>
        /\ \A p \in 1..(Len(casm_instructions) - 1) :
               casm_instructions[p].instruction_index
                   <= casm_instructions[p + 1].instruction_index
        /\ \A p, q, r \in 1..Len(casm_instructions) :
               (p < q /\ q < r /\ casm_instructions[p].instruction_index
                                     = casm_instructions[r].instruction_index)
                   => casm_instructions[q].instruction_index
                          = casm_instructions[p].instruction_index
        /\ {casm_instructions[p].instruction_index : p \in 1..Len(casm_instructions)}
               = 0..(Len(instructions) - 1)

\* two instructions, one of them of two words
C9_Witness ==
    /\ pcC = "done"
    /\ Len(instructions) = 2
    /\ Len(casm_instructions) > 2

IsPrefix(s, t) == Len(s) <= Len(t) /\ \A i \in 1..Len(s) : s[i] = t[i]

\* one step of the fold: a new key with a one-element list, or one element
\* appended to one list; every other entry is kept as it was
FoldStepShape ==
    casm_sierra_mapping' # casm_sierra_mapping =>
        LET old == casm_sierra_mapping
            new == casm_sierra_mapping'
        IN \/ /\ Len(new) = Len(old) + 1
              /\ \A p \in 1..Len(old) : new[p] = old[p]
              /\ ~IdxHas(old, new[Len(new)].key)
              /\ Len(new[Len(new)].val) = 1
           \/ /\ Len(new) = Len(old)
              /\ \E p \in 1..Len(old) :
                   /\ new[p].key = old[p].key
                   /\ Len(new[p].val) = Len(old[p].val) + 1
                   /\ IsPrefix(old[p].val, new[p].val)
                   /\ \A q \in 1..Len(old) : q # p => new[q] = old[q]

\* the statements of each instruction are listed in annotation-list order
ListsInAnnotationOrder ==
    \A e \in 1..Len(casm_sierra_mapping) :
        LET list == casm_sierra_mapping[e].val IN
        /\ \A a, b \in 1..Len(list) : a < b => list[a] < list[b]
        /\ \A a \in 1..Len(list) :
               /\ list[a] < Len(sierra_statement_info)
               /\ sierra_statement_info[list[a] + 1].instruction_idx
                      = casm_sierra_mapping[e].key

\* C10: each step of the fold creates a key with a one-element list or appends
\* one element to an existing list, never replacing or shortening a list, and
\* the final lists keep the relative order of the annotation list.
C10_FoldAppendsOnly ==
    /\ [][FoldStepShape]_vars
    /\ [](pcC = "done" => ListsInAnnotationOrder)

\* an instruction whose list grew to two statements that are not adjacent in
\* the annotation list, beside a second key
C10_Witness ==
    /\ pcC = "done"
    /\ Len(casm_sierra_mapping) = 2
    /\ casm_sierra_mapping[1].val = <<0, 2>>
    /\ casm_sierra_mapping[2].val = <<1>>

\* ----------------------------------------------------- claims on trace_error
Calls == {trace_log[c] : c \in 1..Len(trace_log)}

Keys == IdxKeys(casm_sierra_mapping)

TextsOf(out) == {out[j].text : j \in 1..Len(out)}

RECURSIVE PrintedSpans(_)
\* the spans on the printed lines, in the order printed
PrintedSpans(out) ==
    IF out = <<>> THEN <<>> ELSE Spans(Head(out)) \o PrintedSpans(Tail(out))

RECURSIVE ListedSpans(_)
\* the spans the source table holds for the listed statements, in listed order
ListedSpans(indices) ==
    IF indices = <<>> THEN <<>>
    ELSE (IF IdxHas(Table, Head(indices))
          THEN Spans(IdxGet(Table, Head(indices))) ELSE <<>>)
         \o ListedSpans(Tail(indices))

\* C11: for every pc, trace_error completes without raising, and it takes the
\* not-found outcome exactly when pc is not a key of casm_sierra_mapping.
C11_NotFoundIffNoKey ==
    \A call \in Calls :
        /\ TextsOf(call.out) \subseteq
               {"cairo_locations", "No instruction found at program counter"}
        /\ (call.out = << NotFoundLine(call.pc) >>) <=> (call.pc \notin Keys)
        /\ ("No instruction found at program counter" \in TextsOf(call.out))
               <=> (call.pc \notin Keys)

\* a lookup that found a list with a statement that has no record, and a
\* lookup that found nothing
C11_Witness ==
    /\ \E call \in Calls :
         /\ call.pc \in Keys
         /\ \E s \in Range(IdxGet(casm_sierra_mapping, call.pc)) :
              ~IdxHas(Table, s)
    /\ \E call \in Calls : call.pc \notin Keys

\* C12: when pc is a key, the lookup yields the spans of every statement of
\* the matched list, concatenated in listed order; a listed statement without
\* spans adds nothing and raises nothing.
C12_SpansOfListInOrder ==
    \A call \in Calls :
        call.pc \in Keys =>
            /\ PrintedSpans(call.out) =
                   ListedSpans(IdxGet(casm_sierra_mapping, call.pc))
            /\ TextsOf(call.out) \subseteq {"cairo_locations"}

\* a matched list of two statements, the first without spans, the second with
C12_Witness ==
    \E call \in Calls :
        /\ call.pc \in Keys
        /\ LET list == IdxGet(casm_sierra_mapping, call.pc) IN
           /\ Len(list) = 2
           /\ ListedSpans(<<list[1]>>) = <<>>
           /\ ListedSpans(<<list[2]>>) # <<>>
           /\ PrintedSpans(call.out) = ListedSpans(<<list[2]>>)

FoundButEmpty(call) == call.pc \in Keys /\ PrintedSpans(call.out) = <<>>

\* C13: a lookup that finds an instruction without spans and a lookup that
\* finds no instruction print different things: the second prints its message,
\* the first never does.
C13_EmptyIsNotNotFound ==
    \A a, b \in Calls :
        (FoundButEmpty(a) /\ b.pc \notin Keys) =>
            /\ a.out # b.out
            /\ TextsOf(a.out) \cap TextsOf(b.out) = {}
            /\ b.out # <<>>

\* one lookup found a list and printed nothing at all, another found no key
C13_Witness ==
    \E a, b \in Calls :
        /\ FoundButEmpty(a)
        /\ a.out = <<>>
        /\ b.pc \notin Keys

\* the offset, in words, of the first encoded word of instruction i
FirstWordOffset(i) ==
    LET mine == {j \in 1..Len(casm_instructions) :
                    casm_instructions[j].instruction_index = i}
    IN (CHOOSE j \in mine : \A k \in mine : j <= k) - 1

\* C14: looking up the word offset of the first encoded word of instruction i
\* yields the statement list recorded for instruction i.
C14_WordOffsetFindsInstruction ==
    \A call \in Calls :
        \A i \in 0..(Len(instructions) - 1) :
            (i \in Keys /\ call.pc = FirstWordOffset(i)) =>
                call.out = print_statements(IdxGet(casm_sierra_mapping, i), Table)

\* the tables of the compilation result
ResultTables == <<sierra_cairo_info_mapping, casm_instructions, casm_sierra_mapping>>

Ended == {p \in DOMAIN passes : passes[p].pc = "done"}

\* the pass ended where one of its two stages failed
StageFailed(p) ==
    /\ passes[p].ret[1].kind = "Err"
    /\ passes[p].exit \in {"compile_cairo", "compile_casm"}

\* C16: a pass of compile or compile_contract ends either with a result that
\* holds both complete tables or with a failure returned to the caller and no
\* table; there is no third way to end and no result with a table missing.
C16_ResultOrReturnedFailure ==
    \A p \in Ended :
        LET ret == passes[p].ret[1] IN
        \/ /\ ret.kind = "Ok"
           /\ \E code \in Codes : ret.cairo_sierra = << FullProgram(code) >>
           /\ \E code \in Codes : ret.casm_sierra = << SierraCompile(code) >>
        \/ /\ ret.kind = "Err"
           /\ ret.cairo_sierra = <<>>
           /\ ret.casm_sierra = <<>>

\* C17: every failure of a stage that compile returns carries a context on
\* top of the stage's own error, and the context of the second stage names it.
C17_StageFailuresWrapped ==
    \A p \in Ended :
        (passes[p].entry = "compile" /\ StageFailed(p)) =>
            /\ Len(passes[p].ret[1].chain) >= 2
            /\ passes[p].exit = "compile_casm" =>
                   Head(passes[p].ret[1].chain) = "Failed to compile CASM program"

\* C17, amended: compile puts "Failed to compile CASM program" on top of a
\* failure of the second stage, and returns a failure of the first stage as
\* the stage gave it, with no context added.
C17_OnlyCasmStageWrapped ==
    \A p \in Ended :
        (passes[p].entry = "compile" /\ StageFailed(p)) =>
            LET chain == passes[p].ret[1].chain IN
            /\ passes[p].exit = "compile_casm" =>
                   /\ Len(chain) >= 2
                   /\ Head(chain) = "Failed to compile CASM program"
            /\ passes[p].exit = "compile_cairo" =>
                   chain = <<Diagnostics>>

\* one pass of compile failed in its first stage and one in its second
C17_Witness ==
    /\ \E p \in Ended :
         passes[p].entry = "compile" /\ StageFailed(p)
         /\ passes[p].exit = "compile_cairo"
    /\ \E p \in Ended :
         passes[p].entry = "compile" /\ StageFailed(p)
         /\ passes[p].exit = "compile_casm"

\* the text compile_sierra_to_casm read in pass p cannot be parsed
Unparsable(p) ==
    /\ passes[p].entry = "compile"
    /\ passes[p].sierra_program # <<>>
    /\ \/ passes[p].sierra_program[1].kind # "sierra"
       \/ passes[p].sierra_program[1].code.fault = "parse"

\* C18: when the intermediate text cannot be parsed the pass fails with an
\* error that carries the fragment the parser stopped at, and with no table.
C18_ParseErrorCarriesFragment ==
    \A p \in Ended :
        Unparsable(p) =>
            /\ passes[p].ret[1].kind = "Err"
            /\ ParseError \in Range(passes[p].ret[1].chain)
            /\ passes[p].ret[1].casm_sierra = <<>>

\* C18, amended: the pass fails with the fixed message "Failed to parse sierra
\* program" under the context of the stage, nothing of the text in it, and
\* with no table.
C18_ParseErrorIsFixedMessage ==
    \A p \in Ended :
        Unparsable(p) =>
            /\ passes[p].ret[1].kind = "Err"
            /\ passes[p].ret[1].chain =
                   <<"Failed to compile CASM program", "Failed to parse sierra program">>
            /\ passes[p].ret[1].casm_sierra = <<>>
            /\ passes[p].ret[1].cairo_sierra = <<>>

C18_Witness == \E p \in Ended : Unparsable(p)

\* C19: once a pass has ended, its temporary directory and the source and
\* intermediate files it wrote are gone, however it ended.
C19_NothingLeftBehind ==
    \A p \in Ended :
        passes[p].dir # <<>> =>
            /\ passes[p].dir[1] \notin fs.dirs
            /\ \A f \in fs.files :
                 f.path \notin {cairo_file_path(passes[p]), sierra_file_path(passes[p])}

\* what a pass returns when it runs alone and no file operation fails
Alone(entry, code) ==
    LET full_program == compile_cairo(<< CairoText(code) >>) IN
    IF full_program.kind # "Ok" THEN cairo_stage_failed(entry, full_program)
    ELSE LET casm_program ==
                 casm_stage(entry, << SierraText(full_program.cairo_sierra[1].program) >>)
         IN IF casm_program.kind = "Ok"
            THEN Ok(full_program.cairo_sierra, casm_program.casm_sierra)
            ELSE casm_program

\* C20: passes that run at the same time, in any interleaving and also with
\* the same file name, do not touch each other's files: each ends as it would
\* have ended alone.
C20_PassesDoNotInterfere ==
    \A p \in Ended :
        \/ passes[p].ret[1] = Err(<<IoError>>)
        \/ passes[p].ret[1] = Alone(passes[p].entry, passes[p].code)

\* ------------------------------------------- claims on the table builders
\* a reported location of a statement below k lies in the contract file
ContractReferencedBelow(k) ==
    \E e \in Range(locations) :
        e.statement_idx < k /\ file_name(e.location.file_id) = "contract"

\* C21: the contract text is empty until the first location, in statement
\* then location order over all statements, that lies in the virtual file
\* "contract"; from there on it is the content of that file and never changes.
C21_ContractCapturedAtFirstReference ==
    pcS \in {"loop", "done"} =>
        contract_content =
            IF ContractReferencedBelow(idx) THEN VirtualContent ELSE <<>>

RECURSIVE RecordsFrom(_)
\* the records of the statements i..N-1 that have a function name, as a
\* function of the three inputs of the builder alone
RecordsFrom(i) ==
    IF i >= no_of_statements THEN <<>>
    ELSE (IF i \in DOMAIN statements_functions_map
          THEN << [key |-> i,
                   val |-> [fn_name |-> statements_functions_map[i],
                            cairo_locations |->
                                IF IdxHas(diagnostic_locations, i)
                                THEN << [j \in 1..Len(IdxGet(diagnostic_locations, i)) |->
                                           cairo_location(IdxGet(diagnostic_locations, i)[j])] >>
                                ELSE <<>>]] >>
          ELSE <<>>)
         \o RecordsFrom(i + 1)

\* the positions of the annotations of instruction k, in ascending order
PositionsOf(k) ==
    SelectSeq([j \in 1..Len(sierra_statement_info) |-> j - 1],
              LAMBDA pos : sierra_statement_info[pos + 1].instruction_idx = k)

\* the instruction-statement table as a function of the annotation list alone:
\* the keys in the order of their first annotation, each with its positions
IsFoldOfAnnotations(mapping) ==
    /\ \A e \in 1..Len(mapping) :
         /\ mapping[e].val = PositionsOf(mapping[e].key)
         /\ mapping[e].val # <<>>
    /\ \A e, f \in 1..Len(mapping) :
         e < f => mapping[e].val[1] < mapping[f].val[1]
    /\ \A j \in 1..Len(sierra_statement_info) :
         IdxHas(mapping, sierra_statement_info[j].instruction_idx)

\* C22: the two tables a run returns are functions of the inputs of the
\* builders: equal inputs give equal keys, equal key order and equal lists.
C22_TablesAreFunctionsOfInputs ==
    (pcS = "done" /\ pcC = "done") =>
        /\ sierra_cairo_info_mapping = RecordsFrom(0)
        /\ IsFoldOfAnnotations(casm_sierra_mapping)

\* both tables have two keys, in an order that matters
C22_Witness ==
    /\ pcS = "done"
    /\ pcC = "done"
    /\ Len(sierra_cairo_info_mapping) = 2
    /\ Len(casm_sierra_mapping) = 2
    /\ casm_sierra_mapping[1].key > casm_sierra_mapping[2].key

\* ------------------------------------------ claims on contract compilation
\* the contract selection has been made
Selected == pcK \notin {"idle", "select"}

\* C23: a contract is handed to the compiler exactly when exactly one
\* contract is left after the filter; with none left the pass returns
\* "Contract not found." (or the failed diagnostics), with several left the
\* ambiguity error, and in both cases nothing is compiled.
C23_CompilesExactlyOne ==
    Selected =>
        /\ (handed # <<>>) <=> (Len(contracts) = 1)
        /\ Len(contracts) = 1 => handed = <<contracts[1]>>
        /\ Len(contracts) = 0 =>
               /\ pcK = "done"
               /\ contract_ret =
                      << ContractErr(IF diagnostics_ok THEN "Contract not found."
                                     ELSE "diagnostics") >>
        /\ Len(contracts) > 1 =>
               /\ pcK = "done"
               /\ contract_ret =
                      << ContractErr("More than one contract found in the main crate") >>
        /\ Len(contracts) # 1 =>
               semantic_entry_points = <<>> /\ entry_points_by_type = <<>>
        /\ (contract_ret # <<>> /\ contract_ret[1].kind = "Ok") =>
               /\ Len(contracts) = 1
               /\ contract_ret[1].class[1].contract = contracts[1]

\* two contracts are left and the pass has returned
C23_Witness ==
    /\ pcK = "done"
    /\ Len(contracts) = 2
    /\ contract_ret # <<>>
    /\ contract_ret[1].kind = "Err"

EntryPointTypes == {"external", "l1_handler", "constructor"}

\* the functions of a type handed to get_entry_points, and what it returned
InputOf(type) ==
    IF type = "external" THEN semantic_entry_points[1].external
    ELSE IF type = "l1_handler" THEN semantic_entry_points[1].l1_handler
    ELSE semantic_entry_points[1].constructor

OutputOf(type) ==
    IF type = "external" THEN entry_points_by_type[1].external
    ELSE IF type = "l1_handler" THEN entry_points_by_type[1].l1_handler
    ELSE entry_points_by_type[1].constructor

\* C24: get_entry_points returns one entry point per input function, each
\* exactly once, in non-decreasing order of selector, whatever the input order.
C24_EntryPointsSortedPermutation ==
    entry_points_by_type # <<>> =>
        \A type \in EntryPointTypes :
            LET in == InputOf(type)
                out == OutputOf(type)
            IN /\ Len(out) = Len(in)
               /\ \E perm \in [1..Len(in) -> 1..Len(in)] :
                    /\ \A i, j \in 1..Len(in) : i # j => perm[i] # perm[j]
                    /\ \A i \in 1..Len(in) :
                         out[perm[i]] = [selector |-> in[i].selector,
                                         function_idx |-> in[i].function_idx]
               /\ \A i, j \in 1..Len(out) :
                    i < j => out[i].selector <= out[j].selector

\* the external functions were declared in decreasing order of selector
C24_Witness ==
    /\ entry_points_by_type # <<>>
    /\ Len(InputOf("external")) >= 2
    /\ InputOf("external")[1].selector > InputOf("external")[2].selector
    /\ OutputOf("external")[1].selector < OutputOf("external")[Len(OutputOf("external"))].selector

\* the declared functions of a module
DeclaredIn(module) == {i \in 1..Len(abi_functions) : abi_functions[i].module = module}

\* list holds exactly the declared functions of the module, in declared order
KeepsCountAndOrder(list, module) ==
    /\ Len(list) = Cardinality(DeclaredIn(module))
    /\ {list[i].function_idx : i \in 1..Len(list)} = DeclaredIn(module)
    /\ \A i \in 1..Len(list) : list[i] = abi_functions[list[i].function_idx]
    /\ \A i, j \in 1..Len(list) : i < j => list[i].function_idx < list[j].function_idx

TimesListed(v) ==
    Cardinality({pair \in {<<e, a>> : e \in 1..Len(casm_sierra_mapping), a \in 1..MaxInfo + 1} :
                    /\ pair[2] <= Len(casm_sierra_mapping[pair[1]].val)
                    /\ casm_sierra_mapping[pair[1]].val[pair[2]] = v})

\* C26: the lists of the returned instruction-statement table partition
\* 0..M-1 for an annotation list of length M: each index is listed once in
\* one list and nothing else is listed, the lists are non-empty and strictly
\* increasing, and the keys are the instruction_idx values of the annotations.
C26_ListsPartitionStatements ==
    pcC = "done" =>
        LET M == Len(sierra_statement_info) IN
        /\ \A v \in 0..(M - 1) : TimesListed(v) = 1
        /\ \A e \in 1..Len(casm_sierra_mapping) :
             LET list == casm_sierra_mapping[e].val IN
             /\ list # <<>>
             /\ Range(list) \subseteq 0..(M - 1)
             /\ \A a \in 1..(Len(list) - 1) : list[a] < list[a + 1]
        /\ \A e, f \in 1..Len(casm_sierra_mapping) :
             e # f => casm_sierra_mapping[e].key # casm_sierra_mapping[f].key
        /\ IdxKeys(casm_sierra_mapping) =
               {sierra_statement_info[j].instruction_idx : j \in 1..M}

\* three annotations over two instructions, one of them listed with two
C26_Witness ==
    /\ pcC = "done"
    /\ Len(sierra_statement_info) = 3
    /\ Len(casm_sierra_mapping) = 2
    /\ \E e \in 1..2 : Len(casm_sierra_mapping[e].val) = 2

\* C27: in the returned source table i is a key exactly when i < N and the
\* function-name map has an entry for i; the keys are strictly increasing,
\* each record holds that name, and a record has locations only when the
\* location map has an entry for i.
C27_KeysAreNamedStatements ==
    pcS = "done" =>
        /\ IdxKeys(Table) =
               {i \in 0..(no_of_statements - 1) : i \in DOMAIN statements_functions_map}
        /\ \A e \in 1..(Len(Table) - 1) : Table[e].key < Table[e + 1].key
        /\ \A e \in 1..Len(Table) :
             /\ Table[e].val.fn_name = statements_functions_map[Table[e].key]
             /\ Table[e].val.cairo_locations # <<>> =>
                    IdxHas(diagnostic_locations, Table[e].key)

\* of two statements only the second has a name, the first has locations;
\* the second has a record without locations
C27_Witness ==
    /\ pcS = "done"
    /\ no_of_statements = 2
    /\ DOMAIN statements_functions_map = {1}
    /\ IdxHas(diagnostic_locations, 0)
    /\ ~IdxHas(diagnostic_locations, 1)
    /\ Len(Table) = 1
    /\ Table[1].val.cairo_locations = <<>>

====
